---- MODULE Spec2Model ----
(***************************************************************************)
(* Balance reconciliation of the billing backend: Sale, Payment and        *)
(* Customer documents and the request handlers that keep them in step.     *)
(*                                                                         *)
(* Money is counted in half-cents (one unit = 0.005), so that the 0.01     *)
(* tolerance of the handlers is two units and amounts strictly inside the  *)
(* tolerance exist.  Arithmetic is exact decimal arithmetic; the rounding  *)
(* error of IEEE doubles is not modelled.                                  *)
(*                                                                         *)
(* Every handler is one atomic action (a sequential execution); a handler  *)
(* that fails part-way keeps the writes it had already made.               *)
(***************************************************************************)
EXTENDS Integers, Sequences, FiniteSets, TLC

\* ------------------------------------------------------------------ bounds
MaxSales     == 2
MaxPayments  == 1
MaxOps       == 3
InitialStock == 2

\* ------------------------------------------------------- program constants
\* 0.01, the tolerance of every balance comparison, in half-cents
Eps == 2

\* ------------------------------------------------------------------ inputs
CustomerIds == {"c1", "c2"}
ProductIds  == {"p1", "p2"}

Item(p, q, pr, d) == [product |-> p, quantity |-> q, price |-> pr, discount |-> d]

\* item lists of the request bodies of POST and PUT /api/sales
ItemLists ==
  { << Item("p1", 1, 4, 0) >>,
    << Item("p1", 1, 4, 0), Item("p2", 2, 4, 1) >> }

\* invoice numbers are a prefix and the digits cut from the clock; a body
\* may spell the prefix in lower case
Invoice(prefix, digits) == [prefix |-> prefix, digits |-> digits]

PatchInvoiceNumbers == { Invoice("inv", 9) }

Discounts   == {0}
Taxes       == {0}
PaidAmounts == {0, 2, 3, 7}

SaleBody(c, items, d, t, p) ==
  [customer |-> c, items |-> items, discount |-> d, tax |-> t, paid |-> p]

\* request bodies of POST /api/sales; among them one that names a product
\* on two lines, one whose second product has no document ("p0") and one
\* whose customer has no document ("c0")
SaleBodies ==
  { SaleBody(c, items, d, t, p) :
      c \in CustomerIds, items \in ItemLists, d \in Discounts, t \in Taxes,
      p \in PaidAmounts }
  \cup { SaleBody("c1", << Item("p1", 2, 4, 0), Item("p1", 2, 4, 0) >>, 0, 0, 0),
         SaleBody("c1", << Item("p1", 1, 4, 0), Item("p0", 1, 4, 0) >>, 0, 0, 0),
         SaleBody("c0", << Item("p1", 1, 4, 0) >>, 0, 0, 0) }

\* the two requests that are handled concurrently
Requests == {"r1", "r2"}

PayAmounts   == {4, 12}
AllocAmounts == {4, 20}

VARIABLES
  customers,   \* Customer documents: outstandingAmount, totalPurchase
  products,    \* Product documents: stock.current
  sales,       \* Sale documents, in order of creation (index = _id)
  payments,    \* Payment documents, in order of creation (index = _id)
  response,    \* data of the last response (customer list), else << >>
  last,        \* the last request: handler, outcome, target, body (if recorded)
  torn,        \* some handler has failed after it had written a document
  nops,        \* number of requests handled
  inflight     \* the requests that run concurrently: position and in-memory documents

vars == <<customers, products, sales, payments, response, last, torn, nops, inflight>>

\* --------------------------------------------------------------- helpers
Abs(x) == IF x < 0 THEN -x ELSE x

Min(a, b) == IF a < b THEN a ELSE b

\* item.total = (item.price * item.quantity) - item.discount
ItemTotal(item) == (item.price * item.quantity) - item.discount

WithTotal(item) ==
  [product |-> item.product, quantity |-> item.quantity, price |-> item.price,
   discount |-> item.discount, total |-> ItemTotal(item)]

RECURSIVE Subtotal(_)
Subtotal(items) ==
  IF items = << >> THEN 0
  ELSE ItemTotal(Head(items)) + Subtotal(Tail(items))

\* Math.abs(balance) < 0.01 ? 0 : balance
SnapBalance_Wide(b) == IF Abs(b) <= 2 * Eps THEN 0 ELSE b

SnapBalance(b) == IF Abs(b) < Eps THEN 0 ELSE b

\* the if/else chain that derives paymentStatus from balance and paid
PaymentStatusOf_NoOverpaid(balance, paid) ==
  IF Abs(balance) < Eps THEN "paid"
  ELSE IF paid > 0 THEN "partial"
  ELSE "pending"

PaymentStatusOf(balance, paid) ==
  IF balance < -Eps THEN "overpaid"
  ELSE IF Abs(balance) < Eps THEN "paid"
  ELSE IF paid > 0 THEN "partial"
  ELSE "pending"

\* Customer.findByIdAndUpdate(id, {$inc: {totalPurchase, outstandingAmount}})
IncCustomer(cust, id, dTotal, dOutstanding) ==
  IF id \in DOMAIN cust
  THEN [cust EXCEPT ![id] = [totalPurchase     |-> @.totalPurchase + dTotal,
                             outstandingAmount |-> @.outstandingAmount + dOutstanding]]
  ELSE cust

\* saleSchema.post('save'): runs after every Sale.create and sale.save
SalePostSave_AnyStatus(cust, sale) ==
  IF sale.balance > 0
  THEN IncCustomer(cust, sale.customer, 0, sale.balance)
  ELSE cust

SalePostSave(cust, sale) ==
  IF sale.status = "completed" /\ sale.balance > 0
  THEN IncCustomer(cust, sale.customer, 0, sale.balance)
  ELSE cust

\* the min validators of saleSchema, run by Sale.create and sale.save
ItemValid(item) ==
  /\ item.quantity >= 1
  /\ item.price >= 0
  /\ item.discount >= 0
  /\ item.total >= 0

SaleValid(s) ==
  /\ \A i \in DOMAIN s.items : ItemValid(s.items[i])
  /\ s.subtotal >= 0
  /\ s.discount >= 0
  /\ s.tax >= 0
  /\ s.total >= 0
  /\ s.paid >= 0
  /\ s.status \in {"completed", "cancelled", "refunded"}
  /\ s.paymentStatus \in {"paid", "partial", "pending", "overpaid"}

\* one Product.findByIdAndUpdate(item.product, {$inc: {'stock.current': n}})
\* per item, in order
RECURSIVE IncStock(_, _, _)
IncStock(prod, items, sign) ==
  IF items = << >> THEN prod
  ELSE LET it == Head(items)
           p1 == IF it.product \in DOMAIN prod
                 THEN [prod EXCEPT ![it.product] = @ + sign * it.quantity]
                 ELSE prod
       IN  IncStock(p1, Tail(items), sign)

\* uppercase: true, the setter of saleSchema.invoiceNumber
Uppercase(n) == [n EXCEPT !.prefix = IF @ = "inv" THEN "INV" ELSE @]

\* unique: true, the index on invoiceNumber: some stored sale other than
\* `self` has the number
InvoiceTaken(S, n, self) ==
  \E i \in DOMAIN S : i # self /\ S[i].invoiceNumber = n

\* `INV-${yyyymmdd}-${Date.now().toString().slice(-4)}`: the digits are
\* either those of a stored invoice number or digits no stored one has
\* (which of the unused digits makes no difference: the least stands for all)
GeneratedInvoiceNumbers(S) ==
  LET used   == { S[i].invoiceNumber.digits : i \in DOMAIN S }
      unused == CHOOSE d \in 1..(Len(S) + 1) :
                  /\ d \notin used
                  /\ \A e \in 1..(d - 1) : e \in used
  IN  { Invoice("INV", d) : d \in used \cup {unused} }

\* Sale.create(saleData): validation, then the insert, which the unique
\* index refuses with error 11000
SaleCreate_InsertsThenThrows(S, saleData) ==
  IF ~SaleValid(saleData) THEN [result |-> "ValidationFailed", sales |-> S]
  ELSE IF InvoiceTaken(S, saleData.invoiceNumber, 0)
  THEN [result |-> "Conflict", sales |-> Append(S, saleData)]
  ELSE [result |-> "ok", sales |-> Append(S, saleData)]

SaleCreate(S, saleData) ==
  IF ~SaleValid(saleData) THEN [result |-> "ValidationFailed", sales |-> S]
  ELSE IF InvoiceTaken(S, saleData.invoiceNumber, 0)
  THEN [result |-> "Conflict", sales |-> S]
  ELSE [result |-> "ok", sales |-> Append(S, saleData)]

\* if (sale.status === 'cancelled'): the guard of Sale Update and Sale Cancel
IsCancelled_Never(sale) == FALSE

IsCancelled(sale) == sale.status = "cancelled"

Request(op, result, id, body) ==
  [op |-> op, result |-> result, id |-> id, body |-> body]

\* a request slot: the handler, its position, the sale it has read
\* (`doc`, the in-memory document) and what the handler keeps in its locals
Idle ==
  [op |-> "none", pc |-> "idle", sale |-> 0, doc |-> << >>, amount |-> 0,
   rest |-> << >>, allocated |-> << >>, totalAllocated |-> 0, body |-> << >>,
   id |-> 0, result |-> "none"]

\* ------------------------------------------------------------------- Init
Init ==
  /\ customers = [c \in CustomerIds |-> [totalPurchase |-> 0, outstandingAmount |-> 0]]
  /\ products  = [p \in ProductIds |-> InitialStock]
  /\ sales     = << >>
  /\ payments  = << >>
  /\ response  = << >>
  /\ last      = Request("none", "ok", 0, << >>)
  /\ torn      = FALSE
  /\ nops      = 0
  /\ inflight  = [r \in Requests |-> Idle]

\* ------------------------------------------------------------ Sale Create
\* the loop over the items: the first item whose product is missing or has
\* less stock than the item asks ends the request
RECURSIVE CheckItems(_, _)
CheckItems(prod, items) ==
  IF items = << >> THEN "ok"
  ELSE IF Head(items).product \notin DOMAIN prod THEN "NotFound"
  ELSE IF prod[Head(items).product] < Head(items).quantity THEN "InsufficientStock"
  ELSE CheckItems(prod, Tail(items))

CreateSale(customer, items, discount, tax, paid) ==
  /\ nops < MaxOps
  /\ Len(sales) < MaxSales
  /\ nops' = nops + 1
  /\ UNCHANGED inflight
  /\ response' = << >>
  /\ \E invoiceNumber \in GeneratedInvoiceNumbers(sales) :
      LET subtotal == Subtotal(items)
          total    == subtotal - discount + tax
          balance  == total - paid
          saleData == [invoiceNumber |-> Uppercase(invoiceNumber),
                       customer      |-> customer,
                       items         |-> [i \in DOMAIN items |-> WithTotal(items[i])],
                       subtotal      |-> subtotal,
                       discount      |-> discount,
                       tax           |-> tax,
                       total         |-> total,
                       paid          |-> paid,
                       balance       |-> SnapBalance(balance),
                       paymentStatus |-> PaymentStatusOf(balance, paid),
                       status        |-> "completed"]
          created  == SaleCreate(sales, saleData)
      IN  IF customer \notin DOMAIN customers
          THEN /\ last' = Request("createSale", "NotFound", 0, << >>)
               /\ UNCHANGED <<customers, products, sales, payments, torn>>
          ELSE IF CheckItems(products, items) # "ok"
          THEN /\ last' = Request("createSale", CheckItems(products, items), 0, << >>)
               /\ UNCHANGED <<customers, products, sales, payments, torn>>
          ELSE IF created.result # "ok"
          THEN /\ last' = Request("createSale", created.result, 0, << >>)
               /\ sales' = created.sales
               /\ UNCHANGED <<customers, products, payments, torn>>
          ELSE /\ sales' = created.sales
               /\ products' = IncStock(products, items, -1)
               /\ customers' = IncCustomer(SalePostSave(customers, saleData),
                                           customer, total, saleData.balance)
               /\ last' = Request("createSale", "ok", Len(sales) + 1, << >>)
               /\ UNCHANGED <<payments, torn>>

\* ------------------------------------------------------------ Sale Update
\* request bodies of PUT /api/sales/:id.  Items arrive with the line total
\* the client computed.  A body may carry any field of the document: the
\* handler copies every key.
PatchItemLists == { [i \in DOMAIN l |-> WithTotal(l[i])] : l \in ItemLists }

SalePatches ==
  { [notes |-> "n"] }
  \cup { [paid |-> x] : x \in {0, 6} }
  \cup { [total |-> 9] }
  \cup { [discount |-> 1] }
  \cup { [items |-> l] : l \in PatchItemLists }
  \cup { [items |-> l, discount |-> 1, paid |-> 2] : l \in {m \in PatchItemLists : Len(m) = 1} }
  \cup { [customer |-> c] : c \in CustomerIds }
  \cup { [status |-> s] : s \in {"cancelled", "refunded"} }
  \cup { [balance |-> 7, paymentStatus |-> "paid"] }
  \cup { [invoiceNumber |-> n] : n \in PatchInvoiceNumbers }

\* Object.keys(req.body).forEach(key => sale[key] = req.body[key]); keys
\* that are not paths of the schema are dropped by the document
CopyKeys(sale, body) ==
  [k \in DOMAIN sale |-> IF k \in DOMAIN body THEN body[k] ELSE sale[k]]

\* the setters the schema runs on the assigned paths
CastSale(sale) == [sale EXCEPT !.invoiceNumber = Uppercase(@)]

\* parseFloat(req.body[key]) || fallback
ParseOr(body, key, fallback) ==
  IF key \in DOMAIN body /\ body[key] # 0 THEN body[key] ELSE fallback

\* the recalculation of subtotal, discount, tax, total and paid that runs
\* when the body carries items
RecalculateTotals(sale, body) ==
  IF "items" \in DOMAIN body
  THEN LET subtotal == Subtotal(body.items)
           discount == ParseOr(body, "discount", sale.discount)
           tax      == ParseOr(body, "tax", sale.tax)
       IN  [sale EXCEPT !.subtotal = subtotal,
                        !.discount = discount,
                        !.tax      = tax,
                        !.total    = subtotal - discount + tax,
                        !.paid     = ParseOr(body, "paid", sale.paid)]
  ELSE sale

\* "Always recalculate balance and payment status"
RecalculateBalance(sale) ==
  LET balance == SnapBalance(sale.total - sale.paid)
  IN  [sale EXCEPT !.balance = balance,
                   !.paymentStatus = PaymentStatusOf(balance, sale.paid)]

UpdateSale(id, body) ==
  /\ nops < MaxOps
  /\ nops' = nops + 1
  /\ UNCHANGED inflight
  /\ response' = << >>
  /\ IF id \notin DOMAIN sales
     THEN /\ last' = Request("updateSale", "NotFound", id, << >>)
          /\ UNCHANGED <<customers, products, sales, payments, torn>>
     ELSE IF IsCancelled(sales[id])
     THEN /\ last' = Request("updateSale", "InvalidState", id, << >>)
          /\ UNCHANGED <<customers, products, sales, payments, torn>>
     ELSE LET oldTotal    == sales[id].total
              oldBalance  == sales[id].balance
              sale        == RecalculateBalance(
                               RecalculateTotals(CastSale(CopyKeys(sales[id], body)), body))
              totalDiff   == sale.total - oldTotal
              balanceDiff == sale.balance - oldBalance
              hooked      == SalePostSave(customers, sale)
          IN  IF ~SaleValid(sale)
              THEN /\ last' = Request("updateSale", "ValidationFailed", id, << >>)
                   /\ UNCHANGED <<customers, products, sales, payments, torn>>
              ELSE IF InvoiceTaken(sales, sale.invoiceNumber, id)
              THEN /\ last' = Request("updateSale", "ServerError", id, << >>)
                   /\ UNCHANGED <<customers, products, sales, payments, torn>>
              ELSE /\ sales' = [sales EXCEPT ![id] = sale]
                   /\ customers' =
                        IF totalDiff # 0 \/ balanceDiff # 0
                        THEN IncCustomer(hooked, sale.customer, totalDiff, balanceDiff)
                        ELSE hooked
                   /\ last' = Request("updateSale", "ok", id, body)
                   /\ UNCHANGED <<products, payments, torn>>

\* ------------------------------------------------------------ Sale Cancel
DeleteSale(id) ==
  /\ nops < MaxOps
  /\ nops' = nops + 1
  /\ UNCHANGED inflight
  /\ response' = << >>
  /\ IF id \notin DOMAIN sales
     THEN /\ last' = Request("deleteSale", "NotFound", id, << >>)
          /\ UNCHANGED <<customers, products, sales, payments, torn>>
     ELSE IF IsCancelled(sales[id])
     THEN /\ last' = Request("deleteSale", "InvalidState", id, << >>)
          /\ UNCHANGED <<customers, products, sales, payments, torn>>
     ELSE LET sale      == sales[id]
              reversed  == IncCustomer(customers, sale.customer,
                                       -sale.total, -sale.balance)
              cancelled == [sale EXCEPT !.status = "cancelled"]
          IN  /\ products' = IncStock(products, sale.items, 1)
              /\ sales' = [sales EXCEPT ![id] = cancelled]
              /\ customers' = SalePostSave(reversed, cancelled)
              /\ last' = Request("deleteSale", "ok", id, << >>)
              /\ UNCHANGED <<payments, torn>>

\* --------------------------------------------------------- Payment Create
\* a requested allocation: {sale, amount}; a sale id may name no document
Allocations == [sale : 1..MaxSales, amount : AllocAmounts]

\* request bodies: no, one or two allocations (the second of the smaller
\* amount), to the same sale or to different ones
AllocLists ==
  { << >> }
  \cup { << a >> : a \in Allocations }
  \cup { << a, b >> : a \in Allocations,
                     b \in { x \in Allocations : \A y \in AllocAmounts : x.amount <= y } }

\* const allocationAmount = Math.min(allocation.amount, sale.balance)
AllocationAmount_Requested(requested, balance) == requested

AllocationAmount(requested, balance) == Min(requested, balance)

\* sale.paid += amount; sale.balance -= amount; paymentStatus re-derived
\* (the reversal of updatePayment is the same with the amount negated)
ApplyToSale(sale, amount) ==
  LET paid    == sale.paid + amount
      balance == sale.balance - amount
  IN  [sale EXCEPT !.paid = paid,
                   !.balance = balance,
                   !.paymentStatus = PaymentStatusOf(balance, paid)]

\* sale.save() of one allocation or reversal, the post-save hook, and the
\* $inc of the customer's outstandingAmount by the balance change
SaveAllocation(st, id, saved) ==
  LET balanceChange == saved.balance - st.sales[id].balance
  IN  [st EXCEPT !.sales = [st.sales EXCEPT ![id] = saved],
                 !.customers = IncCustomer(SalePostSave(st.customers, saved),
                                           saved.customer, 0, balanceChange)]

\* const sale = await Sale.findById(allocation.sale): the stored document,
\* with what the earlier allocations of the request have saved
FindSale_AsAtStart(st, id) == sales[id]

FindSale(st, id) == st.sales[id]

\* the allocation loop of createPayment; st carries the documents written so
\* far, the allocations recorded so far and the outcome
RECURSIVE AllocateClamped_RolledBack(_, _, _)
AllocateClamped_RolledBack(start, st, requested) ==
  IF requested = << >> THEN st
  ELSE LET allocation == Head(requested)
       IN  IF allocation.sale \notin DOMAIN st.sales
           THEN [start EXCEPT !.result = "NotFound"]
           ELSE LET sale == FindSale(st, allocation.sale)
                    allocationAmount == AllocationAmount(allocation.amount, sale.balance)
                    saved == ApplyToSale(sale, allocationAmount)
                    st1 == [st EXCEPT
                              !.allocated = Append(@, [sale   |-> allocation.sale,
                                                       amount |-> allocationAmount]),
                              !.totalAllocated = @ + allocationAmount]
                IN  IF sale.balance <= 0
                    THEN [start EXCEPT !.result = "InvalidState"]
                    ELSE AllocateClamped_RolledBack(
                           start, SaveAllocation(st1, allocation.sale, saved),
                           Tail(requested))

AllocationLoop_RolledBack(st, requested) == AllocateClamped_RolledBack(st, st, requested)

RECURSIVE AllocateClamped(_, _)
AllocateClamped(st, requested) ==
  IF requested = << >> THEN st
  ELSE LET allocation == Head(requested)
       IN  IF allocation.sale \notin DOMAIN st.sales
           THEN [st EXCEPT !.result = "NotFound"]
           ELSE LET sale == FindSale(st, allocation.sale)
                    allocationAmount == AllocationAmount(allocation.amount, sale.balance)
                    saved == ApplyToSale(sale, allocationAmount)
                    st1 == [st EXCEPT
                              !.allocated = Append(@, [sale   |-> allocation.sale,
                                                       amount |-> allocationAmount]),
                              !.totalAllocated = @ + allocationAmount]
                IN  IF sale.balance <= 0
                    THEN [st EXCEPT !.result = "InvalidState"]
                    ELSE IF ~SaleValid(saved)
                    THEN [st1 EXCEPT !.result = "ServerError"]
                    ELSE AllocateClamped(SaveAllocation(st1, allocation.sale, saved),
                                         Tail(requested))

\* request bodies of POST /api/payments: the larger amount with every
\* allocation list, the smaller one with a list that uses it up, and one
\* whose customer has no document ("c0")
PaymentBody(c, a, l) == [customer |-> c, amount |-> a, sales |-> l]

PaymentBodies ==
  { PaymentBody(c, 12, l) : c \in CustomerIds, l \in AllocLists }
  \cup { PaymentBody("c1", 4, << [sale |-> 1, amount |-> 4] >>),
         PaymentBody("c0", 4, << >>) }

\* if (sales && sales.length > 0) { for (let allocation of sales) ... }
AllocationLoop(st, requested) == AllocateClamped(st, requested)

LoopStart ==
  [sales |-> sales, customers |-> customers, allocated |-> << >>,
   totalAllocated |-> 0, result |-> "ok"]

\* paymentSchema.virtual('remainingAmount')
RemainingAmount(payment) == payment.amount - payment.totalAllocated

CreatePayment(customer, amount, requested) ==
  /\ nops < MaxOps
  /\ Len(payments) < MaxPayments
  /\ nops' = nops + 1
  /\ UNCHANGED inflight
  /\ response' = << >>
  /\ LET st == IF customer \in DOMAIN customers
               THEN AllocationLoop(LoopStart, requested)
               ELSE [LoopStart EXCEPT !.result = "NotFound"]
         paymentData == [customer       |-> customer,
                         amount         |-> amount,
                         sales          |-> st.allocated,
                         totalAllocated |-> st.totalAllocated]
     IN  /\ sales' = st.sales
         /\ customers' = st.customers
         /\ IF st.result = "ok"
            THEN /\ payments' = Append(payments, paymentData)
                 /\ last' = Request("createPayment", "ok", Len(payments) + 1, requested)
                 /\ UNCHANGED torn
            ELSE /\ last' = Request("createPayment", st.result, 0,
                                     IF customer \in DOMAIN customers
                                     THEN requested ELSE << >>)
                 /\ torn' = (torn \/ st.sales # sales \/ st.customers # customers)
                 /\ UNCHANGED payments
  /\ UNCHANGED products

\* --------------------------------------------------------- Payment Update
\* the loop that reverses the old allocations; a sale.save() that fails
\* validation throws and ends the handler
ReverseAllocations_None(st, oldSales) == st

RECURSIVE ReverseAllocations(_, _)
ReverseAllocations(st, oldSales) ==
  IF oldSales = << >> THEN st
  ELSE LET oldAllocation == Head(oldSales)
       IN  IF oldAllocation.sale \notin DOMAIN st.sales
           THEN ReverseAllocations(st, Tail(oldSales))
           ELSE LET saved == ApplyToSale(st.sales[oldAllocation.sale],
                                         -oldAllocation.amount)
                IN  IF ~SaleValid(saved)
                    THEN [st EXCEPT !.result = "ServerError"]
                    ELSE ReverseAllocations(
                           SaveAllocation(st, oldAllocation.sale, saved),
                           Tail(oldSales))

\* the loop that applies the new allocations: the requested amount is taken
\* as it is
RECURSIVE AllocateRequested_RolledBack(_, _)
AllocateRequested_RolledBack(st, requested) ==
  IF requested = << >> THEN st
  ELSE LET allocation == Head(requested)
       IN  IF allocation.sale \notin DOMAIN st.sales
           THEN [LoopStart EXCEPT !.result = "NotFound"]
           ELSE LET saved == ApplyToSale(st.sales[allocation.sale], allocation.amount)
                    st1 == [st EXCEPT
                              !.allocated = Append(@, [sale   |-> allocation.sale,
                                                       amount |-> allocation.amount]),
                              !.totalAllocated = @ + allocation.amount]
                IN  IF ~SaleValid(saved)
                    THEN [st1 EXCEPT !.result = "ServerError"]
                    ELSE AllocateRequested_RolledBack(
                           SaveAllocation(st1, allocation.sale, saved), Tail(requested))

RECURSIVE AllocateRequested(_, _)
AllocateRequested(st, requested) ==
  IF requested = << >> THEN st
  ELSE LET allocation == Head(requested)
       IN  IF allocation.sale \notin DOMAIN st.sales
           THEN [st EXCEPT !.result = "NotFound"]
           ELSE LET allocationAmount == allocation.amount
                    saved == ApplyToSale(st.sales[allocation.sale], allocationAmount)
                    st1 == [st EXCEPT
                              !.allocated = Append(@, [sale   |-> allocation.sale,
                                                       amount |-> allocationAmount]),
                              !.totalAllocated = @ + allocationAmount]
                IN  IF ~SaleValid(saved)
                    THEN [st1 EXCEPT !.result = "ServerError"]
                    ELSE AllocateRequested(SaveAllocation(st1, allocation.sale, saved),
                                           Tail(requested))

\* const { sales } = req.body; if (sales && sales.length > 0): a body without
\* the list is handled as one with an empty list
RequestedSales_KeepsOld(body, payment) ==
  IF "sales" \in DOMAIN body THEN body.sales ELSE payment.sales

RequestedSales(body, payment) ==
  IF "sales" \in DOMAIN body THEN body.sales ELSE << >>

\* request bodies of PUT /api/payments/:id; among them the allocation list
\* the payment already has
PaymentPatches(id) ==
  LET own == IF id \in DOMAIN payments THEN {payments[id].sales} ELSE {}
  IN  { [notes |-> "n"] }
      \cup { [amount |-> a] : a \in PayAmounts }
      \cup { [sales |-> l] : l \in AllocLists \cup own }
      \cup { [amount |-> a, sales |-> l] : a \in PayAmounts, l \in own }

UpdatePayment(id) ==
  \E body \in PaymentPatches(id) :
    /\ nops < MaxOps
    /\ nops' = nops + 1
    /\ UNCHANGED inflight
    /\ response' = << >>
    /\ IF id \notin DOMAIN payments
       THEN /\ last' = Request("updatePayment", "NotFound", id, << >>)
            /\ UNCHANGED <<customers, sales, payments, torn>>
       ELSE LET payment   == payments[id]
                reversed  == ReverseAllocations(LoopStart, payment.sales)
                requested == RequestedSales(body, payment)
                st        == IF reversed.result = "ok"
                             THEN AllocateRequested(reversed, requested)
                             ELSE reversed
                updated   == [customer       |-> payment.customer,
                              amount         |-> ParseOr(body, "amount", payment.amount),
                              sales          |-> st.allocated,
                              totalAllocated |-> st.totalAllocated]
            IN  /\ sales' = st.sales
                /\ customers' = st.customers
                /\ IF st.result = "ok"
                   THEN /\ payments' = [payments EXCEPT ![id] = updated]
                        /\ last' = Request("updatePayment", "ok", id, body)
                        /\ UNCHANGED torn
                   ELSE /\ last' = Request("updatePayment", st.result, id,
                                            IF st.result = "NotFound" THEN body ELSE << >>)
                        /\ torn' = (torn \/ st.sales # sales \/ st.customers # customers)
                        /\ UNCHANGED payments
    /\ UNCHANGED products

\* ---------------------------------------------------------- Customer list
\* sales.reduce((sum, sale) => sum + sale[field], 0) over the result of
\* Sale.find({customer, status: {$ne: 'cancelled'}})
RECURSIVE Reduce(_, _)
Reduce(found, field) ==
  IF found = << >> THEN 0
  ELSE Head(found)[field] + Reduce(Tail(found), field)

FindSales_AllStatuses(S, customer) ==
  SelectSeq(S, LAMBDA sale : sale.customer = customer)

FindSales(S, customer) ==
  SelectSeq(S, LAMBDA sale : sale.customer = customer /\ sale.status # "cancelled")

GetCustomers(listed) ==
  /\ nops < MaxOps
  /\ nops' = nops + 1
  /\ UNCHANGED inflight
  /\ response' =
       [c \in listed |->
          LET found == FindSales(sales, c)
          IN  [outstandingAmount |-> Reduce(found, "balance"),
               totalPurchase     |-> Reduce(found, "total")]]
  /\ last' = Request("getCustomers", "ok", 0, << >>)
  /\ UNCHANGED <<customers, products, sales, payments, torn>>

Next ==
  \/ \E b \in SaleBodies : CreateSale(b.customer, b.items, b.discount, b.tax, b.paid)
  \/ \E id \in 1..MaxSales, body \in SalePatches : UpdateSale(id, body)
  \/ \E id \in 1..MaxSales : DeleteSale(id)
  \/ \E b \in PaymentBodies : CreatePayment(b.customer, b.amount, b.sales)
  \/ \E id \in 1..MaxPayments : UpdatePayment(id)
  \/ \E listed \in (SUBSET CustomerIds) \ {{}} : GetCustomers(listed)

Spec == Init /\ [][Next]_vars

\* ------------------------------------------------- concurrent requests
\* Two requests are handled at the same time.  A handler gives up control
\* at each await; here the steps between a Sale.findById and the sale.save()
\* that follows it are one action and the writes that follow the save (hook,
\* stock, customer) are done with it, so every behaviour of these actions is
\* an interleaving the handlers allow.

\* sale.save(): the paths the handler has modified are written over the
\* stored document, the other paths stay as stored
SaleSave(stored, doc, paths) ==
  [k \in DOMAIN stored |-> IF k \in paths THEN doc[k] ELSE stored[k]]

\* sale.paid += amount; sale.balance -= amount; ...; await sale.save(), on the
\* document the handler has read
PaymentWrite_OnStored(stored, doc, amount) == ApplyToSale(stored, amount)

PaymentWrite(stored, doc, amount) ==
  SaleSave(stored, ApplyToSale(doc, amount), {"paid", "balance", "paymentStatus"})

RaceSaleBodies ==
  { SaleBody("c1", << Item("p1", 1, 4, 0) >>, 0, 0, 0),
    SaleBody("c2", << Item("p1", 1, 4, 0), Item("p2", 2, 4, 1) >>, 0, 0, 2) }

RacePaymentBodies ==
  { PaymentBody("c1", 12, << [sale |-> 1, amount |-> 4] >>),
    PaymentBody("c1", 4, << [sale |-> 1, amount |-> 2] >>),
    PaymentBody("c2", 12, << [sale |-> 2, amount |-> 4], [sale |-> 1, amount |-> 4] >>) }

\* createPayment up to the test of the sale of the next allocation: the
\* request starts (if it has not) and reads the sale
PaymentFind(r) ==
  /\ inflight[r].pc \in {"idle", "find"}
  /\ \E b \in RacePaymentBodies :
       LET req  == IF inflight[r].pc = "idle"
                   THEN [Idle EXCEPT !.op = "createPayment", !.body = b, !.rest = b.sales]
                   ELSE inflight[r]
           allocation == Head(req.rest)
       IN  /\ inflight[r].pc = "find" => b = inflight[r].body
           /\ IF allocation.sale \notin DOMAIN sales
              THEN inflight' = [inflight EXCEPT ![r] =
                                  [req EXCEPT !.pc = "done", !.result = "NotFound"]]
              ELSE IF sales[allocation.sale].balance <= 0
              THEN inflight' = [inflight EXCEPT ![r] =
                                  [req EXCEPT !.pc = "done", !.result = "InvalidState"]]
              ELSE inflight' = [inflight EXCEPT ![r] =
                                  [req EXCEPT
                                     !.pc = "save",
                                     !.sale = allocation.sale,
                                     !.doc = sales[allocation.sale],
                                     !.amount = AllocationAmount(allocation.amount,
                                                                 sales[allocation.sale].balance)]]
  /\ UNCHANGED <<customers, products, sales, payments, response, last, torn, nops>>

\* the rest of the pass: the allocation is recorded, the sale is saved (with
\* its hook) and the customer's outstandingAmount moves by the balance change
PaymentSave(r) ==
  /\ inflight[r].pc = "save"
  /\ LET req   == inflight[r]
         saved == ApplyToSale(req.doc, req.amount)
         rest  == Tail(req.rest)
     IN  /\ sales' = [sales EXCEPT ![req.sale] = PaymentWrite(@, req.doc, req.amount)]
         /\ customers' = IncCustomer(SalePostSave(customers, saved), saved.customer,
                                     0, saved.balance - req.doc.balance)
         /\ inflight' = [inflight EXCEPT ![r] =
                           [req EXCEPT
                              !.pc = IF rest = << >> THEN "store" ELSE "find",
                              !.rest = rest,
                              !.allocated = Append(@, [sale   |-> req.sale,
                                                       amount |-> req.amount]),
                              !.totalAllocated = @ + req.amount]]
  /\ UNCHANGED <<products, payments, response, last, torn, nops>>

\* Payment.create(paymentData) and the response
PaymentStore(r) ==
  /\ inflight[r].pc = "store"
  /\ LET req == inflight[r]
     IN  /\ payments' = Append(payments,
                               [customer       |-> req.body.customer,
                                amount         |-> req.body.amount,
                                sales          |-> req.allocated,
                                totalAllocated |-> req.totalAllocated])
         /\ inflight' = [inflight EXCEPT ![r] =
                           [req EXCEPT !.pc = "done", !.result = "ok",
                                       !.id = Len(payments) + 1]]
  /\ UNCHANGED <<customers, products, sales, response, last, torn, nops>>

\* deleteSale up to the test of the status: the request starts and reads the
\* sale
CancelFind(r) ==
  /\ inflight[r].pc = "idle"
  /\ \E id \in 1..MaxSales :
       LET req == [Idle EXCEPT !.op = "deleteSale", !.sale = id]
       IN  IF id \notin DOMAIN sales
           THEN inflight' = [inflight EXCEPT ![r] =
                               [req EXCEPT !.pc = "done", !.result = "NotFound"]]
           ELSE IF IsCancelled(sales[id])
           THEN inflight' = [inflight EXCEPT ![r] =
                               [req EXCEPT !.pc = "done", !.result = "InvalidState"]]
           ELSE inflight' = [inflight EXCEPT ![r] =
                               [req EXCEPT !.pc = "restore", !.doc = sales[id]]]
  /\ UNCHANGED <<customers, products, sales, payments, response, last, torn, nops>>

\* the rest of deleteSale: stock restored, customer reduced, status saved
CancelWrite(r) ==
  /\ inflight[r].pc = "restore"
  /\ LET req       == inflight[r]
         cancelled == [req.doc EXCEPT !.status = "cancelled"]
     IN  /\ products' = IncStock(products, req.doc.items, 1)
         /\ customers' = SalePostSave(
                           IncCustomer(customers, req.doc.customer,
                                       -req.doc.total, -req.doc.balance),
                           cancelled)
         /\ sales' = [sales EXCEPT ![req.sale] = SaleSave(@, cancelled, {"status"})]
         /\ inflight' = [inflight EXCEPT ![r] = [req EXCEPT !.pc = "done", !.result = "ok"]]
  /\ UNCHANGED <<payments, response, last, torn, nops>>

RaceNext ==
  \/ \E b \in RaceSaleBodies : CreateSale(b.customer, b.items, b.discount, b.tax, b.paid)
  \/ \E r \in Requests : PaymentFind(r)
  \/ \E r \in Requests : PaymentSave(r)
  \/ \E r \in Requests : PaymentStore(r)
  \/ \E r \in Requests : CancelFind(r)
  \/ \E r \in Requests : CancelWrite(r)

SpecRace == Init /\ [][RaceNext]_vars

\* ================================================================ claims
\* the sum of a field over the sales numbered in I
RECURSIVE SumIdx(_, _, _)
SumIdx(S, I, field) ==
  IF I = {} THEN 0
  ELSE LET i == CHOOSE j \in I : TRUE
       IN  S[i][field] + SumIdx(S, I \ {i}, field)

\* the non-cancelled sales of customer c
Live(S, c) == { i \in DOMAIN S : S[i].customer = c /\ S[i].status # "cancelled" }

\* the sales of customer c
SalesOf(S, c) == { i \in DOMAIN S : S[i].customer = c }

\* the sum of the amounts the allocation list gives to the sales in I
RECURSIVE SumAmounts(_, _)
SumAmounts(allocations, I) ==
  IF allocations = << >> THEN 0
  ELSE (IF Head(allocations).sale \in I THEN Head(allocations).amount ELSE 0)
       + SumAmounts(Tail(allocations), I)

Succeeded(r, op) == r.op = op /\ r.result = "ok"

\* C1: in a failure-free execution every customer's stored outstandingAmount
\* equals the sum of balance over that customer's non-cancelled sales.
C1_Original ==
  ~torn => \A c \in CustomerIds :
             customers[c].outstandingAmount = SumIdx(sales, Live(sales, c), "balance")

\* C2: every stored sale has |balance - (total - paid)| <= 0.01.
C2_BalanceConsistent ==
  \A i \in DOMAIN sales :
    Abs(sales[i].balance - (sales[i].total - sales[i].paid)) <= Eps

\* a payment update has re-allocated to a sale whose balance had been snapped
C2_Witness ==
  /\ Succeeded(last, "updatePayment")
  /\ \E i \in DOMAIN sales :
       /\ sales[i].balance # sales[i].total - sales[i].paid
       /\ \E k \in DOMAIN payments[last.id].sales : payments[last.id].sales[k].sale = i

C4_Original ==
  [][ Succeeded(last', "createSale") =>
        LET s == sales'[last'.id]
        IN  \A c \in CustomerIds :
              /\ customers'[c].totalPurchase =
                   customers[c].totalPurchase + (IF c = s.customer THEN s.total ELSE 0)
              /\ customers'[c].outstandingAmount =
                   customers[c].outstandingAmount + (IF c = s.customer THEN s.balance ELSE 0)
    ]_vars

\* C5: a successful Payment Create lowers each customer's outstandingAmount
\* by the sum of the amounts applied to that customer's sales, and each
\* sale's balance by the amount applied to it.
C5_Original ==
  [][ Succeeded(last', "createPayment") =>
        LET applied == payments'[last'.id].sales
        IN  /\ \A c \in CustomerIds :
                 customers'[c].outstandingAmount =
                   customers[c].outstandingAmount - SumAmounts(applied, SalesOf(sales, c))
            /\ \A i \in DOMAIN sales :
                 sales'[i].balance = sales[i].balance - SumAmounts(applied, {i})
    ]_vars

\* the balance of the sale of the k-th requested allocation when the loop
\* reaches it: its balance before the request less what the earlier
\* allocations of the request applied to it
BalanceWhenReached(applied, k) ==
  sales[applied[k].sale].balance - SumAmounts(SubSeq(applied, 1, k - 1), {applied[k].sale})

\* C6: a successful Payment Create applies to each requested allocation
\* min(requested, the sale's balance when it is reached), raises the sale's
\* paid by what was applied, stores the applied amounts, and has
\* totalAllocated = their sum and remainingAmount = amount - totalAllocated.
C6_AllocationClamped ==
  [][ Succeeded(last', "createPayment") =>
        LET requested == last'.body
            payment   == payments'[last'.id]
            applied   == payment.sales
        IN  /\ Len(applied) = Len(requested)
            /\ \A k \in DOMAIN requested :
                 /\ applied[k].sale = requested[k].sale
                 /\ applied[k].amount =
                      Min(requested[k].amount, BalanceWhenReached(applied, k))
            /\ \A i \in DOMAIN sales :
                 sales'[i].paid = sales[i].paid + SumAmounts(applied, {i})
            /\ payment.totalAllocated = SumAmounts(applied, DOMAIN sales)
            /\ RemainingAmount(payment) = payment.amount - SumAmounts(applied, DOMAIN sales)
    ]_vars

\* a payment was clamped to the balance of its sale: the sale is paid and the
\* excess is in remainingAmount
C6_Witness ==
  /\ Succeeded(last, "createPayment")
  /\ Len(last.body) = 1
  /\ LET payment == payments[last.id]
         sale    == sales[last.body[1].sale]
     IN  /\ payment.sales[1].amount < last.body[1].amount
         /\ payment.amount = last.body[1].amount
         /\ RemainingAmount(payment) = last.body[1].amount - payment.sales[1].amount
         /\ sale.paymentStatus = "paid"
         /\ sale.balance = 0

\* C7: a Payment Update with the allocation list (and amount) the payment
\* already has leaves paid, balance and paymentStatus of every sale and the
\* outstandingAmount of every customer unchanged.
C7_Original ==
  [][ ( /\ Succeeded(last', "updatePayment")
        /\ "sales" \in DOMAIN last'.body
        /\ last'.body.sales = payments[last'.id].sales
        /\ ("amount" \in DOMAIN last'.body => last'.body.amount = payments[last'.id].amount) )
      =>
      ( /\ \A i \in DOMAIN sales :
             /\ sales'[i].paid = sales[i].paid
             /\ sales'[i].balance = sales[i].balance
             /\ sales'[i].paymentStatus = sales[i].paymentStatus
        /\ \A c \in CustomerIds :
             customers'[c].outstandingAmount = customers[c].outstandingAmount )
    ]_vars

\* the quantity the items give to product p
RECURSIVE QuantityOf(_, _)
QuantityOf(items, p) ==
  IF items = << >> THEN 0
  ELSE (IF Head(items).product = p THEN Head(items).quantity ELSE 0)
       + QuantityOf(Tail(items), p)

\* C8: a successful Sale Cancel of a sale with current total T and balance B
\* lowers its customer's totalPurchase by T and outstandingAmount by B, adds
\* each item's quantity to its product's stock and sets status cancelled.
C8_CancelReverses ==
  [][ Succeeded(last', "deleteSale") =>
        LET s == sales[last'.id]
        IN  /\ customers'[s.customer].totalPurchase =
                 customers[s.customer].totalPurchase - s.total
            /\ customers'[s.customer].outstandingAmount =
                 customers[s.customer].outstandingAmount - s.balance
            /\ \A p \in ProductIds :
                 products'[p] = products[p] + QuantityOf(s.items, p)
            /\ sales'[last'.id].status = "cancelled"
    ]_vars

\* a sale of two items that a payment had partly paid has been cancelled
C8_Witness ==
  /\ Succeeded(last, "deleteSale")
  /\ sales[last.id].status = "cancelled"
  /\ sales[last.id].balance > 0
  /\ Len(sales[last.id].items) = 2
  /\ \E n \in DOMAIN payments : SumAmounts(payments[n].sales, {last.id}) > 0

\* C9: every customer's stored totalPurchase equals the sum of total over
\* that customer's non-cancelled sales.  (The payment handlers write neither
\* a total nor a totalPurchase, so they do not bear on the equality.)
C9_Original ==
  \A c \in CustomerIds :
    customers[c].totalPurchase = SumIdx(sales, Live(sales, c), "total")

\* C10: the customer list returns, for every listed customer, the sums of
\* balance and of total over the customer's non-cancelled sales, and writes
\* no document.
C10_ListRecomputes ==
  [][ last'.op = "getCustomers" =>
        /\ \A c \in DOMAIN response' :
             /\ response'[c].outstandingAmount = SumIdx(sales, Live(sales, c), "balance")
             /\ response'[c].totalPurchase = SumIdx(sales, Live(sales, c), "total")
        /\ UNCHANGED <<customers, products, sales, payments>>
    ]_vars

\* the list has served sums that differ from the stored aggregates of a
\* customer who has a cancelled sale
C10_Witness ==
  /\ last.op = "getCustomers"
  /\ \E c \in DOMAIN response :
       /\ response[c].outstandingAmount # customers[c].outstandingAmount
       /\ \E i \in SalesOf(sales, c) : sales[i].status = "cancelled" /\ sales[i].balance > 0

\* C11: Sale Update and Sale Cancel of a cancelled sale fail with
\* InvalidState and leave every Sale, Customer, Product and Payment as it
\* was; a cancelled sale is still cancelled after any Sale Update or Sale
\* Cancel.
C11_CancelledIsFinal ==
  [][ last'.op \in {"updateSale", "deleteSale"} =>
        /\ (last'.id \in DOMAIN sales /\ sales[last'.id].status = "cancelled") =>
              /\ last'.result = "InvalidState"
              /\ UNCHANGED <<sales, customers, products, payments>>
        /\ \A i \in DOMAIN sales :
              sales[i].status = "cancelled" => sales'[i].status = "cancelled" ]_vars

\* a Sale Update and a Sale Cancel have been refused on a cancelled sale
C11_Witness ==
  /\ last.op \in {"updateSale", "deleteSale"}
  /\ last.result = "InvalidState"
  /\ last.id \in DOMAIN sales
  /\ sales[last.id].status = "cancelled"
  /\ sales[last.id].balance > 0

\* C12: a cancelled sale takes no part in the aggregates: a Payment Create or
\* Payment Update handled while every stored sale is cancelled changes no
\* customer's outstandingAmount or totalPurchase.
C12_Original ==
  [][ ( /\ last'.op \in {"createPayment", "updatePayment"}
        /\ \A i \in DOMAIN sales : sales[i].status = "cancelled" )
      => customers' = customers ]_vars

\* C13: no step changes the invoiceNumber of a stored sale (a Sale Update
\* whose body carries invoiceNumber included), and no two stored sales have
\* the same invoiceNumber.
C13_Original ==
  [][ /\ \A i \in DOMAIN sales : sales'[i].invoiceNumber = sales[i].invoiceNumber
      /\ \A i, j \in DOMAIN sales' :
            i # j => sales'[i].invoiceNumber # sales'[j].invoiceNumber ]_vars

\* C14: a Sale Create that fails with NotFound (customer or product
\* missing), InsufficientStock or Conflict (invoice number taken) stores no
\* sale and leaves every product's stock and every customer's aggregates as
\* they were.
C14_FailedCreateWritesNothing ==
  [][ ( /\ last'.op = "createSale"
        /\ last'.result \in {"NotFound", "InsufficientStock", "Conflict"} )
      => UNCHANGED <<sales, products, customers>> ]_vars

\* a Sale Create has been refused for its invoice number while a sale is
\* stored and stock is left for it
C14_Witness ==
  /\ last.op = "createSale"
  /\ last.result = "Conflict"
  /\ sales # << >>
  /\ \E p \in ProductIds : products[p] > 0 /\ products[p] < InitialStock

\* C15: the stock of every product is at least 0 in every reachable state,
\* whatever Sale Creates have run (a create that names one product on more
\* than one line included).
C15_Original == \A p \in ProductIds : products[p] >= 0

\* C16: in every reachable state a stored sale whose paymentStatus is paid
\* has balance exactly 0.
C16_Original ==
  \A i \in DOMAIN sales : sales[i].paymentStatus = "paid" => sales[i].balance = 0

\* C17: a successful Sale Update changes the stored totalPurchase of the
\* sale's customer by (total after - total before) and the stored
\* outstandingAmount by (balance after - balance before).
C17_Original ==
  [][ ( /\ Succeeded(last', "updateSale")
        /\ sales'[last'.id].customer = sales[last'.id].customer )
      => LET c      == sales[last'.id].customer
             before == sales[last'.id]
             after  == sales'[last'.id]
         IN  /\ customers'[c].totalPurchase
                  = customers[c].totalPurchase + (after.total - before.total)
             /\ customers'[c].outstandingAmount
                  = customers[c].outstandingAmount + (after.balance - before.balance) ]_vars

\* C18: a Sale Update whose body changes neither total nor paid (here a
\* body of notes only) leaves the sale's total, paid, balance and
\* paymentStatus and every customer's outstandingAmount and totalPurchase as
\* they were.
C18_Original ==
  [][ ( /\ Succeeded(last', "updateSale")
        /\ last'.body = [notes |-> "n"] )
      => /\ sales'[last'.id].total = sales[last'.id].total
         /\ sales'[last'.id].paid = sales[last'.id].paid
         /\ sales'[last'.id].balance = sales[last'.id].balance
         /\ sales'[last'.id].paymentStatus = sales[last'.id].paymentStatus
         /\ customers' = customers ]_vars

\* C19: a successful Payment Update has applied its new allocation list as
\* Payment Create does: every sale it reached had balance > 0 after the
\* reversal, each stored amount is min(requested, that balance),
\* totalAllocated is the sum of the stored amounts, and no sale it allocated
\* to is left with a balance below zero.
C19_Original ==
  [][ ( /\ Succeeded(last', "updatePayment")
        /\ "sales" \in DOMAIN last'.body )
      => LET requested == last'.body.sales
             old       == payments[last'.id].sales
             payment   == payments'[last'.id]
             applied   == payment.sales
             reached(k) == sales[applied[k].sale].balance
                             + SumAmounts(old, {applied[k].sale})
                             - SumAmounts(SubSeq(applied, 1, k - 1), {applied[k].sale})
         IN  /\ Len(applied) = Len(requested)
             /\ \A k \in DOMAIN applied :
                  /\ applied[k].sale = requested[k].sale
                  /\ reached(k) > 0
                  /\ applied[k].amount = Min(requested[k].amount, reached(k))
                  /\ sales'[applied[k].sale].balance >= 0
             /\ payment.totalAllocated = SumAmounts(applied, DOMAIN sales) ]_vars

\* the allocation list with every amount negated: the reversal of the list
Negated(allocations) ==
  [i \in DOMAIN allocations |->
     [sale |-> allocations[i].sale, amount |-> -allocations[i].amount]]

\* the documents after the allocations of `moves` have been applied to their
\* sales one after the other, each with its save and its customer update
RECURSIVE Replay(_, _)
Replay(st, moves) ==
  IF moves = << >> THEN st
  ELSE LET m == Head(moves)
       IN  Replay(SaveAllocation(st, m.sale, ApplyToSale(st.sales[m.sale], m.amount)),
                  Tail(moves))

\* the position of the first allocation whose sale does not exist
FirstMissing(requested) ==
  CHOOSE k \in DOMAIN requested :
    /\ requested[k].sale \notin DOMAIN sales
    /\ \A j \in 1..(k - 1) : requested[j].sale \in DOMAIN sales

\* C20: when a Payment Update fails with NotFound at the k-th entry of its
\* new list, every old allocation stays reversed and the first k-1 new ones
\* stay applied on the sales and customers, and the stored Payment is not
\* rewritten: it keeps its old allocation list and totalAllocated.
C20_FailedUpdateKeepsWrites ==
  [][ ( /\ last'.op = "updatePayment"
        /\ last'.result = "NotFound"
        /\ last'.id \in DOMAIN payments )
      => LET old  == payments[last'.id].sales
             kept == SubSeq(last'.body.sales, 1, FirstMissing(last'.body.sales) - 1)
         IN  /\ payments' = payments
             /\ \A i \in DOMAIN sales :
                  /\ sales'[i].paid
                       = sales[i].paid - SumAmounts(old, {i}) + SumAmounts(kept, {i})
                  /\ sales'[i].balance
                       = sales[i].balance + SumAmounts(old, {i}) - SumAmounts(kept, {i})
             /\ customers' = Replay(LoopStart, Negated(old) \o kept).customers ]_vars

\* a Payment Update has failed at its second entry: the payment still lists
\* its old allocation, which is reversed on the sale, and the first new
\* allocation is applied
C20_Witness ==
  /\ last.op = "updatePayment"
  /\ last.result = "NotFound"
  /\ last.id \in DOMAIN payments
  /\ payments[last.id].sales # << >>
  /\ Len(last.body.sales) = 2
  /\ FirstMissing(last.body.sales) = 2
  /\ last.body.sales[1].amount # payments[last.id].sales[1].amount
  /\ torn

\* the allocations a Payment Create applies before its first failure (all of
\* them if none fails): each min(requested, balance as left by the earlier
\* ones), up to the first entry whose sale is missing or has balance <= 0
RECURSIVE AppliedPrefix(_, _)
AppliedPrefix(S, requested) ==
  IF requested = << >> THEN << >>
  ELSE LET a == Head(requested)
       IN  IF a.sale \notin DOMAIN S \/ S[a.sale].balance <= 0 THEN << >>
           ELSE LET x == Min(a.amount, S[a.sale].balance)
                IN  << [sale |-> a.sale, amount |-> x] >>
                    \o AppliedPrefix([S EXCEPT ![a.sale].balance = @ - x], Tail(requested))

\* C21: when Payment Create fails with NotFound or InvalidState at the k-th
\* requested allocation, the first k-1 allocations stay applied to their
\* sales (paid, balance, paymentStatus) and to the customers'
\* outstandingAmount, and no Payment is stored.
C21_FailedCreateKeepsWrites ==
  [][ ( /\ last'.op = "createPayment"
        /\ last'.result \in {"NotFound", "InvalidState"}
        /\ last'.body # << >> )
      => LET kept == AppliedPrefix(sales, last'.body)
         IN  /\ Len(kept) < Len(last'.body)
             /\ payments' = payments
             /\ \A i \in DOMAIN sales :
                  /\ sales'[i].paid = sales[i].paid + SumAmounts(kept, {i})
                  /\ sales'[i].balance = sales[i].balance - SumAmounts(kept, {i})
                  /\ sales'[i].paymentStatus =
                       IF SumAmounts(kept, {i}) = 0 /\ \A k \in DOMAIN kept : kept[k].sale # i
                       THEN sales[i].paymentStatus
                       ELSE PaymentStatusOf(sales'[i].balance, sales'[i].paid)
             /\ customers' = Replay(LoopStart, kept).customers ]_vars

\* a Payment Create has failed at its second allocation after it had applied
\* the first: the sale is paid up although no payment is stored
C21_Witness ==
  /\ last.op = "createPayment"
  /\ last.result \in {"NotFound", "InvalidState"}
  /\ Len(last.body) = 2
  /\ last.body[1].sale \in DOMAIN sales
  /\ sales[last.body[1].sale].paid > 0
  /\ payments = << >>
  /\ torn

\* C22: a Payment Create with two allocations a1, a2 to one sale of balance
\* B > 0 applies min(a1, B) on the first pass; on the second pass it fails
\* with InvalidState if B - min(a1, B) <= 0 and otherwise applies
\* min(a2, B - min(a1, B)).
C22_SecondPassSeesFirst ==
  [][ ( /\ last'.op = "createPayment"
        /\ Len(last'.body) = 2
        /\ last'.body[1].sale = last'.body[2].sale
        /\ last'.body[1].sale \in DOMAIN sales
        /\ sales[last'.body[1].sale].balance > 0 )
      => LET s  == last'.body[1].sale
             B  == sales[s].balance
             x1 == Min(last'.body[1].amount, B)
             x2 == Min(last'.body[2].amount, B - x1)
         IN  IF B - x1 <= 0
             THEN /\ last'.result = "InvalidState"
                  /\ sales'[s].paid = sales[s].paid + x1
                  /\ sales'[s].balance = B - x1
             ELSE /\ last'.result = "ok"
                  /\ payments'[last'.id].sales =
                       << [sale |-> s, amount |-> x1], [sale |-> s, amount |-> x2] >>
                  /\ sales'[s].paid = sales[s].paid + x1 + x2
                  /\ sales'[s].balance = B - x1 - x2 ]_vars

\* both passes have paid the same sale and the second was clamped to what
\* the first had left
C22_Witness ==
  /\ Succeeded(last, "createPayment")
  /\ Len(last.body) = 2
  /\ last.body[1].sale = last.body[2].sale
  /\ payments[last.id].sales[2].amount < last.body[2].amount
  /\ payments[last.id].sales[2].amount > 0
  /\ sales[last.body[1].sale].balance = 0

\* the sum of the amounts that the stored payments P record against sale i
RECURSIVE RecordedAgainst(_, _)
RecordedAgainst(P, i) ==
  IF P = << >> THEN 0
  ELSE SumAmounts(Head(P).sales, {i}) + RecordedAgainst(Tail(P), i)

\* C24: every successful Payment Create and Payment Update keeps, for every
\* sale, paid minus the sum of the allocation amounts recorded against the
\* sale over all stored payments; a sale starts with its paid at creation
\* and no recorded allocation, so in an execution of such requests paid is
\* the paid at creation plus the recorded allocations.
C24_PaidIsCreationPlusRecorded ==
  [][ ( Succeeded(last', "createPayment") \/ Succeeded(last', "updatePayment") )
      => \A i \in DOMAIN sales :
           sales'[i].paid - RecordedAgainst(payments', i)
             = sales[i].paid - RecordedAgainst(payments, i) ]_vars

\* a Payment Update has recorded an allocation that overpays a sale which
\* had a paid amount at creation: paid is that amount plus the recorded one
C24_Witness ==
  /\ Succeeded(last, "updatePayment")
  /\ "sales" \in DOMAIN last.body
  /\ \E i \in DOMAIN sales :
       /\ RecordedAgainst(payments, i) > 0
       /\ sales[i].paid > RecordedAgainst(payments, i)
       /\ sales[i].balance < 0

\* C25: a sale's status becomes cancelled only through Sale Cancel, and then
\* together with the restoration of each item's stock and the subtraction
\* of the sale's total and balance from its customer's aggregates; a Sale
\* Update, whatever its body carries, leaves the status as it was.
C25_Original ==
  [][ \A i \in DOMAIN sales :
        /\ (sales[i].status # "cancelled" /\ sales'[i].status = "cancelled") =>
              /\ Succeeded(last', "deleteSale")
              /\ \A p \in ProductIds :
                   products'[p] = products[p] + QuantityOf(sales[i].items, p)
              /\ customers'[sales[i].customer].totalPurchase
                   = customers[sales[i].customer].totalPurchase - sales[i].total
              /\ customers'[sales[i].customer].outstandingAmount
                   = customers[sales[i].customer].outstandingAmount - sales[i].balance
        /\ last'.op = "updateSale" => sales'[i].status = sales[i].status ]_vars

\* C26: a successful Payment Create with one allocation to a sale of another
\* customer than the payment's changes the outstandingAmount of the sale's
\* customer by the sale's balance change and leaves the payment's own
\* customer as it was.
C26_Original ==
  [][ ( /\ Succeeded(last', "createPayment")
        /\ Len(last'.body) = 1
        /\ sales[last'.body[1].sale].customer # payments'[last'.id].customer )
      => LET s     == last'.body[1].sale
             owner == sales[s].customer
             payer == payments'[last'.id].customer
         IN  /\ customers'[payer] = customers[payer]
             /\ customers'[owner].outstandingAmount
                  = customers[owner].outstandingAmount
                    + (sales'[s].balance - sales[s].balance) ]_vars

\* the quantity of product p on the non-cancelled sales of S
RECURSIVE QuantitySold(_, _)
QuantitySold(S, p) ==
  IF S = << >> THEN 0
  ELSE (IF Head(S).status # "cancelled" THEN QuantityOf(Head(S).items, p) ELSE 0)
       + QuantitySold(Tail(S), p)

\* C28: for every product, stock.current plus the item quantities of the
\* product over all non-cancelled sales equals the product's initial stock.
C28_Original ==
  \A p \in ProductIds : products[p] + QuantitySold(sales, p) = InitialStock

\* C29: every stored payment has 0 <= totalAllocated <= amount.
C29_Original ==
  \A i \in DOMAIN payments :
    /\ payments[i].totalAllocated >= 0
    /\ payments[i].totalAllocated <= payments[i].amount

\* C30: a successful Payment Update whose body has no allocation list, or an
\* empty one, reverses every allocation of the payment on its sale (paid
\* falls and balance rises by the recorded amount) and stores the payment
\* with an empty list and totalAllocated = 0.
C30_OmittedListClears ==
  [][ ( /\ Succeeded(last', "updatePayment")
        /\ ("sales" \notin DOMAIN last'.body \/ last'.body.sales = << >>) )
      => LET old == payments[last'.id].sales
         IN  /\ payments'[last'.id].sales = << >>
             /\ payments'[last'.id].totalAllocated = 0
             /\ \A i \in DOMAIN sales :
                  /\ sales'[i].paid = sales[i].paid - SumAmounts(old, {i})
                  /\ sales'[i].balance = sales[i].balance + SumAmounts(old, {i}) ]_vars

\* a Payment Update that carried only notes has cleared the allocations of a
\* payment: the sale it had paid owes again
C30_Witness ==
  /\ Succeeded(last, "updatePayment")
  /\ last.body = [notes |-> "n"]
  /\ payments[last.id].sales = << >>
  /\ payments[last.id].totalAllocated = 0
  /\ \E i \in DOMAIN sales : sales[i].paid = 0 /\ sales[i].balance > 0

\* requests r and q are Payment Creates that have both succeeded with one
\* allocation each, to the same sale, and each had read the sale before the
\* other saved it (they hold the same document as read)
BothReadBeforeEitherSaved(r, q) ==
  /\ r # q
  /\ \A x \in {r, q} :
       /\ inflight[x].op = "createPayment"
       /\ inflight[x].pc = "done"
       /\ inflight[x].result = "ok"
       /\ Len(inflight[x].allocated) = 1
  /\ inflight[r].sale = inflight[q].sale
  /\ inflight[r].doc = inflight[q].doc

\* C23: when two Payment Creates that allocate to one sale have both read the
\* sale before either saved it, the sale's paid and balance hold the
\* allocation of only one of them (paid as read plus that one amount),
\* although both stored payments record their allocation to the sale.
C23_LostUpdate ==
  \A r, q \in Requests :
    BothReadBeforeEitherSaved(r, q) =>
      LET s   == inflight[r].sale
          doc == inflight[r].doc
      IN  /\ \E x \in {r, q} :
               /\ sales[s].paid = doc.paid + inflight[x].amount
               /\ sales[s].balance = doc.balance - inflight[x].amount
          /\ \A x \in {r, q} :
               /\ inflight[x].amount > 0
               /\ payments[inflight[x].id].sales =
                    << [sale |-> s, amount |-> inflight[x].amount] >>

\* the lost update has happened: two payments are stored with an allocation
\* to the sale and the sale's paid has grown by less than their sum
C23_Witness ==
  \E r, q \in Requests :
    /\ BothReadBeforeEitherSaved(r, q)
    /\ Len(payments) = 2
    /\ sales[inflight[r].sale].paid
         < inflight[r].doc.paid + inflight[r].amount + inflight[q].amount

\* C27: two Sale Cancel requests for one sale never both pass the test of
\* the status, and the stock they restore is restored once: for every
\* product, stock.current plus the quantities on the non-cancelled sales is
\* the initial stock while no cancel is between its test and its writes.
C27_Original ==
  /\ \A r, q \in Requests :
       ( /\ r # q
         /\ inflight[r].op = "deleteSale" /\ inflight[q].op = "deleteSale"
         /\ inflight[r].sale = inflight[q].sale )
       => ~ ( /\ inflight[r].pc = "restore" \/ inflight[r].result = "ok"
              /\ inflight[q].pc = "restore" \/ inflight[q].result = "ok" )
  /\ (\A r \in Requests : inflight[r].pc # "restore")
       => \A p \in ProductIds : products[p] + QuantitySold(sales, p) = InitialStock

====
